---- MODULE Spec2Model ----
(***************************************************************************)
(* Ranking engine of pingpong-rank (src/main.py): calculate_rankings folds *)
(* the match table day by day into ranking snapshots and day deltas, and   *)
(* pagina_analise_jogador tallies one player's wins and losses.            *)
(*                                                                         *)
(* The match table df is the input: Init draws it from the valid tables of *)
(* at most MaxLinhas rows and runs lines 88-102 on it.  One action per     *)
(* loop step of calculate_rankings follows, then the player page of main().*)
(***************************************************************************)
EXTENDS Integers, Sequences, FiniteSets

\* ------------------------------------------------------------------ bounds
\* Rows of the match table.
MaxLinhas == 2
\* Distinct calendar dates a row may carry (dates are 1..MaxData).
MaxData == 2
\* A low starting score, next to PONTOS_INICIAIS, that puts the zero floor
\* of line 146 within reach of a table of MaxLinhas rows.
LowStart == 5

\* ------------------------------------------------- scoring constants (22-28)
PONTOS_VITORIA == 10
PONTOS_DERROTA == -10
PONTOS_INICIAIS == 1000
BONUS_TOP_1 == 25
BONUS_TOP_2 == 20
BONUS_TOP_3 == 15
BONUS_UPSET == 5

\* ------------------------------------------------------------------ inputs
\* Player names of the sheet; NaN is the empty cell pandas reads as NaN.
Nomes == {"Ana", "Bia", "Caio", "Davi"}
NaN == "<NaN>"
\* pd.isna / pd.notna
isna(x) == x = NaN
notna(x) == x # NaN

\* (Resultado_J1, Resultado_J2): a win of each side, and the 0-0 that
\* load_data's fillna(0) yields for unreadable scores (a tie).
Placares == {<<11, 5>>, <<5, 11>>, <<0, 0>>}

Linhas ==
  { [ID_Partida |-> id, Data |-> d, Jogador_1 |-> j1, Jogador_2 |-> j2,
     Resultado_J1 |-> pl[1], Resultado_J2 |-> pl[2]] :
       id \in 1..MaxLinhas, d \in 1..MaxData,
       j1 \in Nomes \cup {NaN}, j2 \in Nomes \cup {NaN}, pl \in Placares }

\* A match has two different participants (a cell may be empty), and
\* ID_Partida identifies the row.
TabelaValida(t) ==
  /\ \A i \in DOMAIN t : isna(t[i].Jogador_1) \/ t[i].Jogador_1 # t[i].Jogador_2
  /\ \A i, j \in DOMAIN t : i # j => t[i].ID_Partida # t[j].ID_Partida

PontosIniciais == {PONTOS_INICIAIS, LowStart}

\* ----------------------------------------------------------------- helpers
Max(a, b) == IF a >= b THEN a ELSE b

\* pd.unique: the values of a sequence in order of first appearance.
RECURSIVE unique(_)
unique(s) ==
  IF s = <<>> THEN <<>>
  ELSE LET ini == unique(SubSeq(s, 1, Len(s) - 1))
           x == s[Len(s)]
       IN IF \E i \in DOMAIN ini : ini[i] = x THEN ini ELSE Append(ini, x)

\* df[['Jogador_1', 'Jogador_2']].values.ravel('K'): the two columns in
\* memory order, the Jogador_1 column first, then the Jogador_2 column.
ravelK(tabela) ==
  [i \in 1..Len(tabela) |-> tabela[i].Jogador_1]
    \o [i \in 1..Len(tabela) |-> tabela[i].Jogador_2]

\* line 93
Jogadores(tabela) == unique(ravelK(tabela))

\* The keys of pontuacoes in dict (insertion) order, line 96.
Chaves(jogs) == SelectSeq(jogs, notna)

\* sorted(...) ascending on a sequence of integers, without duplicates.
RECURSIVE sortedInt(_)
sortedInt(S) ==
  IF S = {} THEN <<>>
  ELSE LET m == CHOOSE x \in S : \A y \in S : x <= y
       IN <<m>> \o sortedInt(S \ {m})

\* Mutant of DatasUnicas: the rows with a missing participant are dropped
\* before the dates are collected.
DatasUnicasSoCompletas(tabela) ==
  sortedInt({tabela[i].Data : i \in {k \in DOMAIN tabela :
               notna(tabela[k].Jogador_1) /\ notna(tabela[k].Jogador_2)}})

\* line 102
DatasUnicas(tabela) == sortedInt({tabela[i].Data : i \in DOMAIN tabela})

\* pontuacoes.items(): (jogador, pontos) pairs in dict order.
items(jogs, pont) ==
  LET ch == Chaves(jogs) IN [i \in 1..Len(ch) |-> <<ch[i], pont[ch[i]]>>]

\* sorted(itens, key=pontos, reverse=True): descending by points, stable
\* (equal points keep their dict order).
RECURSIVE OrdenarPorPontos(_)
OrdenarPorPontos(itens) ==
  IF itens = <<>> THEN <<>>
  ELSE LET x == Head(itens)
           resto == OrdenarPorPontos(Tail(itens))
           m == Cardinality({i \in DOMAIN resto : resto[i][2] > x[2]})
       IN SubSeq(resto, 1, m) \o <<x>> \o SubSeq(resto, m + 1, Len(resto))

\* Mutant of Ranking: the items are left in dict order, unsorted.
RankingSemOrdenar(jogs, pont) == items(jogs, pont)

\* lines 109 and 153
Ranking(jogs, pont) == OrdenarPorPontos(items(jogs, pont))

\* line 112: jogador -> 1-based position
MapaRanking(ranking) ==
  [j \in {ranking[i][1] : i \in DOMAIN ranking} |->
     CHOOSE i \in DOMAIN ranking : ranking[i][1] = j]

\* sort_values(by='ID_Partida'): ascending by ID.
RECURSIVE OrdenarPorID(_)
OrdenarPorID(linhas) ==
  IF linhas = <<>> THEN <<>>
  ELSE LET x == Head(linhas)
           resto == OrdenarPorID(Tail(linhas))
           m == Cardinality({i \in DOMAIN resto : resto[i].ID_Partida < x.ID_Partida})
       IN SubSeq(resto, 1, m) \o <<x>> \o SubSeq(resto, m + 1, Len(resto))

\* line 115
PartidasDoDia(tabela, data) ==
  OrdenarPorID(SelectSeq(tabela, LAMBDA l : l.Data = data))

\* Mutant of Faltando: only Jogador_1 is tested for a missing name.
FaltandoSoJogador1(partida) == isna(partida.Jogador_1)

\* line 121
Faltando(partida) == isna(partida.Jogador_1) \/ isna(partida.Jogador_2)

\* line 125
Vencedor(partida) ==
  IF partida.Resultado_J1 > partida.Resultado_J2
  THEN partida.Jogador_1 ELSE partida.Jogador_2
Perdedor(partida) ==
  IF partida.Resultado_J1 > partida.Resultado_J2
  THEN partida.Jogador_2 ELSE partida.Jogador_1

\* lines 128-129: mapa.get(jogador, len(jogadores) + 1)
RankDe(mapa, jogs, j) == IF j \in DOMAIN mapa THEN mapa[j] ELSE Len(jogs) + 1

\* Mutant of PontosVencedor: the upset bonus and the top-rank bonus exclude
\* each other (an elif chain).
PontosVencedorExclusivo(rank_vencedor, rank_perdedor) ==
  PONTOS_VITORIA
    + (IF rank_vencedor > rank_perdedor THEN BONUS_UPSET
       ELSE IF rank_perdedor = 1 THEN BONUS_TOP_1
       ELSE IF rank_perdedor = 2 THEN BONUS_TOP_2
       ELSE IF rank_perdedor = 3 THEN BONUS_TOP_3
       ELSE 0)

\* lines 132-141: the winner's points
PontosVencedor(rank_vencedor, rank_perdedor) ==
  PONTOS_VITORIA
    + (IF rank_vencedor > rank_perdedor THEN BONUS_UPSET ELSE 0)
    + (IF rank_perdedor = 1 THEN BONUS_TOP_1
       ELSE IF rank_perdedor = 2 THEN BONUS_TOP_2
       ELSE IF rank_perdedor = 3 THEN BONUS_TOP_3
       ELSE 0)

\* Mutant of PontuacaoPerdedor: the zero floor is missing.
PontuacaoPerdedorSemPiso(pontos) == pontos + PONTOS_DERROTA

\* line 146: the loser's new score
PontuacaoPerdedor(pontos) == Max(0, pontos + PONTOS_DERROTA)

\* Mutant of GanhoPerdedor: the day delta receives the change actually
\* applied to the score.
GanhoPerdedorAplicado(pontos) == Max(0, pontos + PONTOS_DERROTA) - pontos

\* line 150: what the loser's day delta receives
GanhoPerdedor(pontos) == PONTOS_DERROTA

\* AplicarPartida with the ranks looked up in the standings of the moment
\* instead of the standings the day started with.
AplicarPartidaRankAoVivo(pont, ganhos, mapa, jogs, partida) ==
  LET vencedor == Vencedor(partida)
      perdedor == Perdedor(partida)
      ao_vivo == MapaRanking(Ranking(jogs, pont))
      pontos_vencedor == PontosVencedor(RankDe(ao_vivo, jogs, vencedor),
                                        RankDe(ao_vivo, jogs, perdedor))
      pont1 == [pont EXCEPT ![vencedor] = @ + pontos_vencedor]
      pont2 == [pont1 EXCEPT ![perdedor] = PontuacaoPerdedor(@)]
      ganhos1 == [ganhos EXCEPT ![vencedor] = @ + pontos_vencedor]
      ganhos2 == [ganhos1 EXCEPT ![perdedor] = @ + GanhoPerdedor(pont1[perdedor])]
  IN [pontuacoes |-> pont2, pontos_ganhos_dia |-> ganhos2]

\* lines 128-150 for one match with both participants: the new score map
\* and day deltas.
AplicarPartida(pont, ganhos, mapa, jogs, partida) ==
  LET vencedor == Vencedor(partida)
      perdedor == Perdedor(partida)
      pontos_vencedor == PontosVencedor(RankDe(mapa, jogs, vencedor),
                                        RankDe(mapa, jogs, perdedor))
      pont1 == [pont EXCEPT ![vencedor] = @ + pontos_vencedor]
      pont2 == [pont1 EXCEPT ![perdedor] = PontuacaoPerdedor(@)]
      ganhos1 == [ganhos EXCEPT ![vencedor] = @ + pontos_vencedor]
      ganhos2 == [ganhos1 EXCEPT ![perdedor] = @ + GanhoPerdedor(pont1[perdedor])]
  IN [pontuacoes |-> pont2, pontos_ganhos_dia |-> ganhos2]

\* lines 118-150: one iteration of the match loop
AplicarLinha(pont, ganhos, mapa, jogs, partida) ==
  IF Faltando(partida)
  THEN [pontuacoes |-> pont, pontos_ganhos_dia |-> ganhos]
  ELSE AplicarPartida(pont, ganhos, mapa, jogs, partida)


\* ------------------------------------------- pagina_analise_jogador helpers
\* pandas ==: an empty cell (NaN) equals nothing, itself included.
Igual(a, b) == a = b /\ notna(a) /\ notna(b)

\* line 302: the rows in which the selected player takes part
DfJogador(tabela, sel) ==
  SelectSeq(tabela, LAMBDA l : Igual(l.Jogador_1, sel) \/ Igual(l.Jogador_2, sel))

\* lines 309-310: the row is a win of the selected player
LinhaVitoria(l, sel) ==
  \/ (Igual(l.Jogador_1, sel) /\ l.Resultado_J1 > l.Resultado_J2)
  \/ (Igual(l.Jogador_2, sel) /\ l.Resultado_J2 > l.Resultado_J1)

\* lines 305-315: wins, losses and total of the selected player
Contagem(tabela, sel) ==
  LET dj == DfJogador(tabela, sel)
      v == Cardinality({i \in DOMAIN dj : LinhaVitoria(dj[i], sel)})
      d == Cardinality({i \in DOMAIN dj : ~LinhaVitoria(dj[i], sel)})
  IN [vitorias |-> v, derrotas |-> d, total_jogos |-> v + d]

\* line 295: sorted() compares the names; a NaN (a float) next to a name
\* (a str) raises TypeError.
SortedFalha(jogs) ==
  /\ \E i \in DOMAIN jogs : isna(jogs[i])
  /\ \E i \in DOMAIN jogs : notna(jogs[i])

\* ------------------------------------------------------------------- state
VARIABLES
  df,                     \* the match table handed to calculate_rankings
  pontos_iniciais,        \* the starting score of the run
  jogadores,              \* line 93
  pontuacoes,             \* line 96
  rankings_diarios,       \* line 99: date -> ranking
  stats_diarias,          \* line 100: date -> pontos_ganhos
  datas_unicas,           \* line 102
  data_atual,             \* the date of the day loop (0 before the first)
  pontos_ganhos_dia,      \* line 107
  ranking_anterior,       \* line 109
  mapa_ranking_anterior,  \* line 112
  partidas_do_dia,        \* line 115
  i_partida,              \* rows of partidas_do_dia already iterated
  pc,                     \* "dia" | "partida" | "fim" | "perfil" | "erro"
  jogador_selecionado,    \* line 297
  vitorias,               \* line 305
  derrotas,               \* line 306
  total_jogos             \* line 315

vars == <<df, pontos_iniciais, jogadores, pontuacoes, rankings_diarios,
          stats_diarias, datas_unicas, data_atual, pontos_ganhos_dia,
          ranking_anterior, mapa_ranking_anterior, partidas_do_dia,
          i_partida, pc, jogador_selecionado, vitorias, derrotas,
          total_jogos>>

\* The empty Python dict.
Vazio == [x \in {} |-> 0]

\* ------------------------------------------- calculate_rankings as a function
\* The dict f with f[d] = v stored.
Com(f, d, v) == [x \in DOMAIN f \cup {d} |-> IF x = d THEN v ELSE f[x]]

\* lines 118-150: the match loop over the rows of one day
RECURSIVE FoldPartidas(_, _, _, _, _)
FoldPartidas(pont, ganhos, mapa, jogs, partidas) ==
  IF partidas = <<>> THEN [pontuacoes |-> pont, pontos_ganhos_dia |-> ganhos]
  ELSE LET r == AplicarLinha(pont, ganhos, mapa, jogs, Head(partidas))
       IN FoldPartidas(r.pontuacoes, r.pontos_ganhos_dia, mapa, jogs, Tail(partidas))

\* lines 105-155: the day loop over the dates still to come
RECURSIVE FoldDias(_, _, _, _, _, _)
FoldDias(tabela, jogs, pont, datas, rankings, stats) ==
  IF datas = <<>> THEN [rankings_diarios |-> rankings, stats_diarias |-> stats]
  ELSE LET d == Head(datas)
           r == FoldPartidas(pont, [j \in DOMAIN pont |-> 0],
                             MapaRanking(Ranking(jogs, pont)), jogs,
                             PartidasDoDia(tabela, d))
       IN FoldDias(tabela, jogs, r.pontuacoes, Tail(datas),
                   Com(rankings, d, Ranking(jogs, r.pontuacoes)),
                   Com(stats, d, r.pontos_ganhos_dia))

\* lines 85-157: the rankings and day deltas of a table, every player
\* starting at ini
calculate_rankings(tabela, ini) ==
  IF tabela = <<>> THEN [rankings_diarios |-> Vazio, stats_diarias |-> Vazio]
  ELSE LET jogs == Jogadores(tabela)
       IN FoldDias(tabela, jogs,
                   [j \in {jogs[i] : i \in DOMAIN jogs} \ {NaN} |-> ini],
                   DatasUnicas(tabela), Vazio, Vazio)


\* calculate_rankings(df) up to the day loop (lines 88-102).
Init ==
  /\ \E n \in 0..MaxLinhas : \E t \in [1..n -> Linhas] :
       TabelaValida(t) /\ df = t
  /\ pontos_iniciais \in PontosIniciais
  /\ jogadores = IF df = <<>> THEN <<>> ELSE Jogadores(df)
  /\ pontuacoes = [j \in {jogadores[i] : i \in DOMAIN jogadores} \ {NaN}
                     |-> pontos_iniciais]
  /\ rankings_diarios = Vazio
  /\ stats_diarias = Vazio
  /\ datas_unicas = IF df = <<>> THEN <<>> ELSE DatasUnicas(df)
  /\ data_atual = 0
  /\ pontos_ganhos_dia = Vazio
  /\ ranking_anterior = <<>>
  /\ mapa_ranking_anterior = Vazio
  /\ partidas_do_dia = <<>>
  /\ i_partida = 0
  /\ pc = IF df = <<>> THEN "fim" ELSE "dia"
  /\ jogador_selecionado = NaN
  /\ vitorias = 0
  /\ derrotas = 0
  /\ total_jogos = 0

DatasRestantes == {datas_unicas[i] : i \in DOMAIN datas_unicas} \ (0..data_atual)

\* Mutant of IniciarDia: the day deltas are set to zero for the first date
\* only and carried over to the later ones.
IniciarDiaSemZerar ==
  /\ pc = "dia"
  /\ DatasRestantes # {}
  /\ LET d == CHOOSE x \in DatasRestantes : \A y \in DatasRestantes : x <= y
         rk == Ranking(jogadores, pontuacoes)
     IN /\ data_atual' = d
        /\ pontos_ganhos_dia' = IF data_atual = 0
                                 THEN [j \in DOMAIN pontuacoes |-> 0]
                                 ELSE pontos_ganhos_dia
        /\ ranking_anterior' = rk
        /\ mapa_ranking_anterior' = MapaRanking(rk)
        /\ partidas_do_dia' = PartidasDoDia(df, d)
  /\ i_partida' = 0
  /\ pc' = "partida"
  /\ UNCHANGED <<df, pontos_iniciais, jogadores, pontuacoes, rankings_diarios,
                 stats_diarias, datas_unicas, jogador_selecionado, vitorias,
                 derrotas, total_jogos>>

\* lines 105-115: the next date of datas_unicas opens its day.
IniciarDia ==
  /\ pc = "dia"
  /\ DatasRestantes # {}
  /\ LET d == CHOOSE x \in DatasRestantes : \A y \in DatasRestantes : x <= y
         rk == Ranking(jogadores, pontuacoes)
     IN /\ data_atual' = d
        /\ pontos_ganhos_dia' = [j \in DOMAIN pontuacoes |-> 0]
        /\ ranking_anterior' = rk
        /\ mapa_ranking_anterior' = MapaRanking(rk)
        /\ partidas_do_dia' = PartidasDoDia(df, d)
  /\ i_partida' = 0
  /\ pc' = "partida"
  /\ UNCHANGED <<df, pontos_iniciais, jogadores, pontuacoes, rankings_diarios,
                 stats_diarias, datas_unicas, jogador_selecionado, vitorias,
                 derrotas, total_jogos>>

\* Mutant of ProcessarPartida: the ranks are looked up in the standings as
\* they are when the match is iterated, not in the map of the start of the day.
ProcessarPartidaRankAoVivo ==
  /\ pc = "partida"
  /\ i_partida < Len(partidas_do_dia)
  /\ LET r == AplicarLinha(pontuacoes, pontos_ganhos_dia,
                           MapaRanking(Ranking(jogadores, pontuacoes)),
                           jogadores, partidas_do_dia[i_partida + 1])
     IN /\ pontuacoes' = r.pontuacoes
        /\ pontos_ganhos_dia' = r.pontos_ganhos_dia
  /\ i_partida' = i_partida + 1
  /\ UNCHANGED <<df, pontos_iniciais, jogadores, rankings_diarios, stats_diarias,
                 datas_unicas, data_atual, ranking_anterior,
                 mapa_ranking_anterior, partidas_do_dia, pc,
                 jogador_selecionado, vitorias, derrotas, total_jogos>>

\* lines 118-150: one iteration of the match loop.
ProcessarPartida ==
  /\ pc = "partida"
  /\ i_partida < Len(partidas_do_dia)
  /\ LET r == AplicarLinha(pontuacoes, pontos_ganhos_dia, mapa_ranking_anterior,
                           jogadores, partidas_do_dia[i_partida + 1])
     IN /\ pontuacoes' = r.pontuacoes
        /\ pontos_ganhos_dia' = r.pontos_ganhos_dia
  /\ i_partida' = i_partida + 1
  /\ UNCHANGED <<df, pontos_iniciais, jogadores, rankings_diarios, stats_diarias,
                 datas_unicas, data_atual, ranking_anterior,
                 mapa_ranking_anterior, partidas_do_dia, pc,
                 jogador_selecionado, vitorias, derrotas, total_jogos>>

\* lines 152-157: the day's snapshot and deltas are stored; after the last
\* date the function returns.
FecharDia ==
  /\ pc = "partida"
  /\ i_partida = Len(partidas_do_dia)
  /\ rankings_diarios' =
       Com(rankings_diarios, data_atual, Ranking(jogadores, pontuacoes))
  /\ stats_diarias' = Com(stats_diarias, data_atual, pontos_ganhos_dia)
  /\ pc' = IF DatasRestantes = {} THEN "fim" ELSE "dia"
  /\ UNCHANGED <<df, pontos_iniciais, jogadores, pontuacoes, datas_unicas,
                 data_atual, pontos_ganhos_dia, ranking_anterior,
                 mapa_ranking_anterior, partidas_do_dia, i_partida,
                 jogador_selecionado, vitorias, derrotas, total_jogos>>

\* main() lines 384-399 with "Analise de Jogadores" chosen, then
\* pagina_analise_jogador(df_partidas), lines 295-317.
PaginaAnaliseJogador ==
  /\ pc = "fim"
  /\ df # <<>>
  /\ \/ /\ SortedFalha(Jogadores(df))
        /\ pc' = "erro"
        /\ UNCHANGED <<jogador_selecionado, vitorias, derrotas, total_jogos>>
     \/ /\ ~SortedFalha(Jogadores(df))
        /\ \E sel \in {Jogadores(df)[i] : i \in DOMAIN Jogadores(df)} :
             LET c == Contagem(df, sel)
             IN /\ jogador_selecionado' = sel
                /\ vitorias' = c.vitorias
                /\ derrotas' = c.derrotas
                /\ total_jogos' = c.total_jogos
        /\ pc' = "perfil"
  /\ UNCHANGED <<df, pontos_iniciais, jogadores, pontuacoes, rankings_diarios,
                 stats_diarias, datas_unicas, data_atual, pontos_ganhos_dia,
                 ranking_anterior, mapa_ranking_anterior, partidas_do_dia,
                 i_partida>>

Next == IniciarDia \/ ProcessarPartida \/ FecharDia \/ PaginaAnaliseJogador

Spec == Init /\ [][Next]_vars

\* ------------------------------------------------- properties: vocabulary
\* The player universe: every name that occurs in the table.
Universo ==
  ({df[i].Jogador_1 : i \in DOMAIN df} \cup {df[i].Jogador_2 : i \in DOMAIN df})
    \ {NaN}

\* The match loop is about to iterate partidas_do_dia[i_partida + 1].
HaProxima == pc = "partida" /\ i_partida < Len(partidas_do_dia)
Proxima == partidas_do_dia[i_partida + 1]
Completa(l) == l.Jogador_1 # NaN /\ l.Jogador_2 # NaN
Ganhador(l) == IF l.Resultado_J1 > l.Resultado_J2 THEN l.Jogador_1 ELSE l.Jogador_2
Derrotado(l) == IF l.Resultado_J1 > l.Resultado_J2 THEN l.Jogador_2 ELSE l.Jogador_1

\* The top-rank bonus for a loser of rank r, and the gain the claims state.
BonusTop(r) == IF r = 1 THEN 25 ELSE IF r = 2 THEN 20 ELSE IF r = 3 THEN 15 ELSE 0
GanhoEsperado(rank_v, rank_p) ==
  10 + (IF rank_v > rank_p THEN 5 ELSE 0) + BonusTop(rank_p)

\* Position of player j in a ranking, and j's points in it.
PosicaoEm(ranking, j) == CHOOSE i \in DOMAIN ranking : ranking[i][1] = j
PontosEm(ranking, j) == ranking[PosicaoEm(ranking, j)][2]

\* The standings before any match: every player at the starting score, in
\* dict order.
RankingInicial ==
  LET ch == SelectSeq(jogadores, LAMBDA j : j # NaN)
  IN [i \in 1..Len(ch) |-> <<ch[i], pontos_iniciais>>]

\* The snapshot a day d starts from: the stored snapshot of the latest
\* earlier date, or the initial standings.
SnapshotAntesDe(d) ==
  LET antes == {x \in DOMAIN rankings_diarios : x < d}
  IN IF antes = {} THEN RankingInicial
     ELSE rankings_diarios[CHOOSE x \in antes : \A y \in antes : y <= x]

\* -------------------------------------------------------------------- C1
\* C1: after any sequence of matches every score of the running score map
\* and of every stored daily snapshot is >= 0.
C1_ScoresNuncaNegativos ==
  /\ \A j \in DOMAIN pontuacoes : pontuacoes[j] >= 0
  /\ \A d \in DOMAIN rankings_diarios :
       \A i \in DOMAIN rankings_diarios[d] : rankings_diarios[d][i][2] >= 0

\* A loss was clamped: a player stands at 0 in a stored snapshot although
\* the score of the start of the day plus the day's delta is below zero.
C1_Witness ==
  \E d \in DOMAIN rankings_diarios :
    \E j \in DOMAIN pontuacoes :
      /\ PontosEm(rankings_diarios[d], j) = 0
      /\ PontosEm(SnapshotAntesDe(d), j) + stats_diarias[d][j] < 0

C3_RanksDoInicioDoDia ==
  [][ (HaProxima /\ Completa(Proxima)) =>
        LET snap == SnapshotAntesDe(data_atual)
            v == Ganhador(Proxima)
            p == Derrotado(Proxima)
        IN /\ mapa_ranking_anterior[v] = PosicaoEm(snap, v)
           /\ mapa_ranking_anterior[p] = PosicaoEm(snap, p)
           /\ mapa_ranking_anterior' = mapa_ranking_anterior
           /\ pontos_ganhos_dia'[v] = pontos_ganhos_dia[v]
                + GanhoEsperado(PosicaoEm(snap, v), PosicaoEm(snap, p))
    ]_vars

\* Two matches of one day were scored, and the first one changed the
\* standings so that ranks taken after it would have given the second match
\* another gain than the ranks of the start of the day gave it.
C3_Witness ==
  /\ pc = "partida"
  /\ i_partida = 2
  /\ Completa(partidas_do_dia[1])
  /\ Completa(partidas_do_dia[2])
  /\ LET antes == [j \in DOMAIN pontuacoes |-> PontosEm(ranking_anterior, j)]
         zero == [j \in DOMAIN pontuacoes |-> 0]
         meio == AplicarLinha(antes, zero, mapa_ranking_anterior, jogadores,
                              partidas_do_dia[1]).pontuacoes
         vivo == MapaRanking(Ranking(jogadores, meio))
         v == Ganhador(partidas_do_dia[2])
         p == Derrotado(partidas_do_dia[2])
     IN /\ GanhoEsperado(vivo[v], vivo[p])
             # GanhoEsperado(mapa_ranking_anterior[v], mapa_ranking_anterior[p])
        /\ pontuacoes[v] = meio[v]
             + GanhoEsperado(mapa_ranking_anterior[v], mapa_ranking_anterior[p])

\* -------------------------------------------------------------------- C4
\* C4: the upset bonus (+5) is part of the winner's gain only when the winner
\* had strictly fewer points than the loser before the day; with equal
\* pre-day points (the first day, every player at 1000) the upset bonus is 0.
C4_UpsetSoComMenosPontos ==
  [][ (pontos_iniciais = PONTOS_INICIAIS /\ HaProxima /\ Completa(Proxima)) =>
        LET v == Ganhador(Proxima)
            p == Derrotado(Proxima)
            upset == IF PontosEm(ranking_anterior, v) < PontosEm(ranking_anterior, p)
                     THEN 5 ELSE 0
        IN pontos_ganhos_dia'[v] - pontos_ganhos_dia[v]
             = 10 + upset + BonusTop(mapa_ranking_anterior[p])
    ]_vars

\* The run of the step actions ends with what calculate_rankings, as a
\* function of the table, returns (the two renderings of the loops agree).
PassosConferemComFold ==
  pc = "fim" =>
    LET r == calculate_rankings(df, pontos_iniciais)
    IN rankings_diarios = r.rankings_diarios /\ stats_diarias = r.stats_diarias

\* -------------------------------------------------------------------- C5
\* The tables that reorder the rows of date d among themselves, every row
\* keeping its own fields and every other row its place.
ReordenacoesDoDia(tabela, d) ==
  LET n == Len(tabela)
      perms == {f \in [1..n -> 1..n] :
                  /\ \A i, j \in 1..n : i # j => f[i] # f[j]
                  /\ \A i \in 1..n : tabela[i].Data # d => f[i] = i}
  IN {[i \in 1..n |-> tabela[f[i]]] : f \in perms}

\* C5: reordering the rows of one day leaves that day's end-of-day scores,
\* and the scores of every later day, unchanged.
C5_OrdemDasLinhasIrrelevante ==
  (pc = "fim" /\ pontos_iniciais = PONTOS_INICIAIS) =>
    \A d \in DOMAIN rankings_diarios :
      \A t2 \in ReordenacoesDoDia(df, d) :
        LET r2 == calculate_rankings(t2, pontos_iniciais).rankings_diarios
        IN \A d2 \in DOMAIN rankings_diarios :
             d2 >= d =>
               \A j \in Universo :
                 PontosEm(r2[d2], j) = PontosEm(rankings_diarios[d2], j)

\* -------------------------------------------------------------------- C6
\* What row l contributes to player j's delta of a day whose ranks are those
\* of the snapshot snap: the computed gain of a win, -10 for a loss.
ParcelaDaLinha(l, j, snap) ==
  IF ~Completa(l) THEN 0
  ELSE IF Ganhador(l) = j
       THEN GanhoEsperado(PosicaoEm(snap, Ganhador(l)), PosicaoEm(snap, Derrotado(l)))
  ELSE IF Derrotado(l) = j THEN -10
  ELSE 0

RECURSIVE SomaParcelas(_, _, _)
SomaParcelas(I, j, snap) ==
  IF I = {} THEN 0
  ELSE LET i == CHOOSE x \in I : TRUE
       IN ParcelaDaLinha(df[i], j, snap) + SomaParcelas(I \ {i}, j, snap)

\* C6: for every day and player the recorded day delta is the sum, over the
\* day's scored matches, of the computed winner gain for each win and of -10
\* for each loss; the -10 is recorded in full also when the stored score was
\* clamped at 0.
C6_DeltaSemClamp ==
  \A d \in DOMAIN stats_diarias :
    \A j \in Universo :
      stats_diarias[d][j]
        = SomaParcelas({i \in DOMAIN df : df[i].Data = d}, j, SnapshotAntesDe(d))

\* A day was stored in which a loser was clamped: the recorded delta is -10
\* and the score moved by less.
C6_Witness ==
  \E d \in DOMAIN stats_diarias :
    \E j \in Universo :
      /\ stats_diarias[d][j] = -10
      /\ PontosEm(rankings_diarios[d], j) = 0
      /\ PontosEm(rankings_diarios[d], j) - PontosEm(SnapshotAntesDe(d), j) > -10

\* -------------------------------------------------------------------- C7
\* C7: a match whose Jogador_1 or Jogador_2 is missing is skipped without
\* error: the step leaves every score and every day delta unchanged and the
\* loop goes on to the next match.
C7_PartidaIncompletaPulada ==
  [][ (HaProxima /\ ~Completa(Proxima)) =>
        /\ pontuacoes' = pontuacoes
        /\ pontos_ganhos_dia' = pontos_ganhos_dia
        /\ pc' = "partida"
        /\ i_partida' = i_partida + 1
    ]_vars

\* A row with a missing participant was skipped and the next match of the
\* day was scored after it.
C7_Witness ==
  /\ pc = "partida"
  /\ i_partida = 2
  /\ ~Completa(partidas_do_dia[1])
  /\ Completa(partidas_do_dia[2])
  /\ pontos_ganhos_dia[Ganhador(partidas_do_dia[2])] >= 10
  /\ pontos_ganhos_dia[Derrotado(partidas_do_dia[2])] = -10

DatasDaTabela == {df[i].Data : i \in DOMAIN df}
DatasComPartidaCompleta == {df[i].Data : i \in {k \in DOMAIN df : Completa(df[k])}}

\* C9 as stated: matches with a missing participant are filtered before the
\* grouping by date, so the dates that key the snapshots and the delta
\* records are exactly the dates with at least one match with both
\* participants.
C9_DatasSoDePartidasCompletas ==
  (pc = "fim" /\ pontos_iniciais = PONTOS_INICIAIS) =>
    /\ DOMAIN rankings_diarios = DatasComPartidaCompleta
    /\ DOMAIN stats_diarias = DatasComPartidaCompleta

\* C9 as amended: matches with a missing participant are skipped inside the
\* day loop, after the grouping by date: the dates that key the snapshots
\* and the delta records are the dates of all rows, and a date whose matches
\* all lack a participant gets a snapshot equal to the standings before that
\* day and a delta record of zeros.
C9_DatasDeTodasAsLinhas ==
  pc = "fim" =>
    /\ DOMAIN rankings_diarios = DatasDaTabela
    /\ DOMAIN stats_diarias = DatasDaTabela
    /\ \A d \in DatasDaTabela \ DatasComPartidaCompleta :
         /\ rankings_diarios[d] = SnapshotAntesDe(d)
         /\ \A j \in Universo : stats_diarias[d][j] = 0

\* The run returned for a table with a scored day followed by a date whose
\* only match lacks a participant, and that date has its snapshot and deltas.
C9_Witness ==
  /\ pc = "fim"
  /\ \E d \in DOMAIN rankings_diarios \cap DOMAIN stats_diarias :
       /\ d \notin DatasComPartidaCompleta
       /\ \E d0 \in DatasComPartidaCompleta : d0 < d
       /\ rankings_diarios[d] = SnapshotAntesDe(d)

\* ------------------------------------------------------------------- C10
\* C10: every stored daily snapshot is ordered by points descending, holds
\* every player of the universe exactly once, with the score the player has
\* after all of that day's matches; a stored snapshot is not changed later.
C10_SnapshotOrdenadoECompleto ==
  /\ [](\A d \in DOMAIN rankings_diarios :
          LET rk == rankings_diarios[d]
          IN /\ \A i \in 1..(Len(rk) - 1) : rk[i][2] >= rk[i + 1][2]
             /\ {rk[i][1] : i \in DOMAIN rk} = Universo
             /\ Len(rk) = Cardinality(Universo)
             /\ d = data_atual =>
                  \A i \in DOMAIN rk : rk[i][2] = pontuacoes[rk[i][1]])
  /\ [][\A d \in DOMAIN rankings_diarios :
          /\ d \in DOMAIN rankings_diarios'
          /\ rankings_diarios'[d] = rankings_diarios[d]]_vars

\* A snapshot of at least three players with strictly decreasing points was
\* stored whose order is not the dict order of the score map.
C10_Witness ==
  \E d \in DOMAIN rankings_diarios :
    LET rk == rankings_diarios[d]
        ch == SelectSeq(jogadores, LAMBDA j : j # NaN)
    IN /\ Len(rk) >= 3
       /\ rk[1][2] > rk[2][2]
       /\ rk[2][2] > rk[3][2]
       /\ rk[1][1] = ch[3]

\* ---------------------------------------------------------------------
\* C11  exchanging the ID_Partida of two rows of one day
\* ---------------------------------------------------------------------

\* the table with the ID_Partida of rows i and j exchanged: line 115 then
\* applies the two matches in the opposite order
TrocaDeIDs(tabela, i, j) ==
  [k \in DOMAIN tabela |->
     IF k = i THEN [tabela[i] EXCEPT !.ID_Partida = tabela[j].ID_Partida]
     ELSE IF k = j THEN [tabela[j] EXCEPT !.ID_Partida = tabela[i].ID_Partida]
     ELSE tabela[k]]

\* the pairs of distinct rows of one date
ParesDoMesmoDia ==
  {par \in (DOMAIN df) \X (DOMAIN df) :
     par[1] < par[2] /\ df[par[1]].Data = df[par[2]].Data}

\* the end-of-day scores of date d are the same after the exchange
MesmoFimDeDia(i, j) ==
  LET d == df[i].Data
      trocado == calculate_rankings(TrocaDeIDs(df, i, j), pontos_iniciais)
  IN \A p \in Universo :
       PontosEm(trocado.rankings_diarios[d], p) = PontosEm(rankings_diarios[d], p)

\* number of scored matches of date d that player p loses
DerrotasNoDia(d, p) ==
  Cardinality({k \in DOMAIN df :
     df[k].Data = d /\ Completa(df[k]) /\ Derrotado(df[k]) = p})

\* no loss of date d can meet the zero floor, in whatever order the day's
\* matches are applied: every player starts the day with PONTOS_VITORIA
\* points for each loss of the day
SemPisoNoDia(d) ==
  \A p \in Universo :
     PontosEm(SnapshotAntesDe(d), p) >= PONTOS_VITORIA * DerrotasNoDia(d, p)

\* C11 as stated: for any two matches of one day, exchanging their
\* ID_Partida leaves every player's end-of-day score unchanged, also at
\* the zero floor.
C11_TrocaDeIDsSempreIgual ==
  pc = "fim" => \A par \in ParesDoMesmoDia : MesmoFimDeDia(par[1], par[2])

\* C11 amended: for any two matches of a day on which no loss can meet the
\* zero floor, exchanging their ID_Partida leaves every player's
\* end-of-day score unchanged.
C11_TrocaDeIDsLongeDoPiso ==
  pc = "fim" =>
    \A par \in ParesDoMesmoDia :
       SemPisoNoDia(df[par[1]].Data) => MesmoFimDeDia(par[1], par[2])

\* two scored matches of one day, away from the floor, share a player who
\* wins one and loses the other, and the exchange changes nothing
C11_Witness ==
  /\ pc = "fim"
  /\ \E par \in ParesDoMesmoDia :
       LET a == df[par[1]]
           b == df[par[2]]
       IN /\ Completa(a) /\ Completa(b)
          /\ SemPisoNoDia(a.Data)
          /\ \/ Ganhador(a) = Derrotado(b)
             \/ Derrotado(a) = Ganhador(b)
          /\ MesmoFimDeDia(par[1], par[2])

\* ---------------------------------------------------------------------
\* C12  players who do not play
\* ---------------------------------------------------------------------

\* player p takes part in a scored match of date d
JogaNoDia(d, p) ==
  \E k \in DOMAIN df :
     /\ df[k].Data = d
     /\ Completa(df[k])
     /\ p \in {df[k].Jogador_1, df[k].Jogador_2}

\* C12: in every stored day, a player who takes part in no scored match of
\* that day has the score of the previous snapshot (the initial standings
\* before the first day) and a day delta of 0; a player with no scored
\* match up to that day has exactly the starting score, PONTOS_INICIAIS in
\* the program's run.
C12_QuemNaoJogaNaoMuda ==
  \A d \in DOMAIN rankings_diarios :
     \A p \in Universo :
        /\ ~JogaNoDia(d, p) =>
              /\ PontosEm(rankings_diarios[d], p) = PontosEm(SnapshotAntesDe(d), p)
              /\ stats_diarias[d][p] = 0
        /\ (\A x \in 1..d : ~JogaNoDia(x, p)) =>
              /\ PontosEm(rankings_diarios[d], p) = pontos_iniciais
              /\ pontos_iniciais = PONTOS_INICIAIS =>
                    PontosEm(rankings_diarios[d], p) = PONTOS_INICIAIS

\* two days are stored: p scored on the first and rests on the second,
\* keeping a score that is no longer the starting one; q first plays on
\* the second day and stands at PONTOS_INICIAIS in the first snapshot
C12_Witness ==
  /\ pontos_iniciais = PONTOS_INICIAIS
  /\ \E d1, d2 \in DOMAIN rankings_diarios :
       /\ d1 < d2
       /\ \E p, q \in Universo :
            /\ JogaNoDia(d1, p) /\ ~JogaNoDia(d2, p)
            /\ stats_diarias[d1][p] # 0
            /\ stats_diarias[d2][p] = 0
            /\ PontosEm(rankings_diarios[d2], p) = PontosEm(rankings_diarios[d1], p)
            /\ PontosEm(rankings_diarios[d2], p) # PONTOS_INICIAIS
            /\ ~JogaNoDia(d1, q) /\ JogaNoDia(d2, q)
            /\ PontosEm(rankings_diarios[d1], q) = PONTOS_INICIAIS
            /\ stats_diarias[d1][q] = 0

====
